---- MODULE Spec2Model ----
(***************************************************************************)
(* Model of the load-testing engine of perfwatch-cli,                      *)
(* tools/loadtest.py: LoadTestTool.run, its nested coroutine make_request  *)
(* and LoadTestTool._calculate_stats.                                      *)
(*                                                                         *)
(* run() executes on one asyncio event loop: code between two awaits is    *)
(* atomic, and every await (semaphore acquire, the HTTP call, the exit of  *)
(* the httpx client context, gather) is a point where another task may     *)
(* run.  Each action below is one such atomic stretch of code.             *)
(***************************************************************************)
EXTENDS Integers, Sequences, FiniteSets, TLC

(* ---------------------------- bounds ----------------------------------- *)
MaxRequests == 3
MaxConcurrent == 3
(* the largest run whose infinite behaviours are explored *)
MaxFairRequests == 2

(* the longest list of response times and of errors given to               *)
(* _calculate_stats on its own                                             *)
MaxSamples == 4
MaxFailures == 11
(* runs of up to this many requests have their failures taken in every     *)
(* completion order                                                        *)
MaxFreeRequests == 5
(* the significand width of the floating-point arithmetic explored with    *)
(* rounding (53 in a Python float), and the longest list it is run on      *)
FloatBits == 8
MaxFloatSamples == 3

(* Inputs of run(): requests, concurrent, progress_callback. *)
RequestCounts == 0..MaxRequests
(* asyncio.Semaphore rejects a negative value with ValueError; 0 is        *)
(* accepted and admits nobody.                                             *)
ConcurrentValues == (-1)..MaxConcurrent
(* No callback, one that returns, one that may raise. *)
CallbackKinds == {"none", "ok", "raises"}

(* What the network can answer to one request. *)
StatusCodes == {200, 500}
ElapsedValues == {100, 200}
(* test_duration, the difference of two time.perf_counter() readings, in   *)
(* seconds: zero when the clock did not advance.                           *)
Durations == {<<0, 1>>, <<3, 2>>}
(* httpx exceptions a request can raise: TimeoutException (the timeout     *)
(* expired), ConnectError (no connection: DNS failure, connection refused, *)
(* TLS handshake failure) and ReadError (the connection was reset while    *)
(* the response was read), which only the generic `except Exception`       *)
(* clause catches.                                                         *)
Exceptions == {"TimeoutException", "ConnectError", "ReadError"}
(* the exceptions httpx raises for a connection-level failure *)
ConnectionFailures == {"ConnectError", "ReadError"}

VARIABLES
    requests,           \* argument `requests`
    concurrent,         \* argument `concurrent`
    progress_callback,  \* argument `progress_callback`: "none", "ok", "raises"
    run_pc,             \* position of run(): "start", "gather", "returned", "raised"
    semaphore,          \* asyncio.Semaphore._value: the free permits
    tasks,              \* the list `tasks`, as the request_id of each coroutine
    pc,                 \* position of each make_request(i)
    exc,                \* the exception in flight in make_request(i), or "none"
    issued,             \* number of HTTP requests unit i has sent
    response_times,     \* list response_times
    status_codes,       \* dict status_codes
    errors,             \* list errors
    completed,          \* nonlocal counter `completed`
    progress,           \* the values progress_callback has been called with
    result,             \* the dict run() returned, or Null
    now,                \* the reading of time.perf_counter(), in seconds
    test_start,         \* local test_start of run()
    start_time,         \* local start_time of each make_request(i)
    admitted,           \* the clock reading at which the semaphore admitted unit i
    cli                 \* the options the loadtest command was invoked with, or NoCli

vars == <<requests, concurrent, progress_callback, run_pc, semaphore, tasks,
          pc, exc, issued, response_times, status_codes, errors, completed,
          progress, result, now, test_start, start_time, admitted, cli>>

Null == [total_requests |-> -1]
(* run() called as a library function, not by the loadtest command *)
NoCli == << >>

(* --------------------------- helpers ----------------------------------- *)

(* list(range(n)) *)
RangeBuggy(n) == [k \in 1..(n + 1) |-> k - 1]
Range(n) == [k \in 1..n |-> k - 1]

Elems(s) == {s[k] : k \in DOMAIN s}

(* asyncio.Semaphore.locked(): acquire() suspends the caller while this    *)
(* holds.                                                                  *)
LockedBuggy(value) == value < 0
LockedWhileBusy(value) == value < concurrent
LockedNever(value) == FALSE
Locked(value) == value <= 0

(* asyncio.Semaphore.release(), called by `async with` on every exit.      *)
ReleaseTwice(value) == value + 2
ReleaseNever(value) == value
Release(value) == value + 1

(* status_codes[code] = status_codes.get(code, 0) + 1 *)
DictGet(d, k, default) == IF k \in DOMAIN d THEN d[k] ELSE default
TallySkipErrors(d, code) ==
    IF code >= 400 THEN d
    ELSE [c \in DOMAIN d \cup {code} |-> IF c = code THEN DictGet(d, code, 0) + 1 ELSE d[c]]
TallyLost(d, code) == [c \in DOMAIN d \cup {code} |-> IF c = code THEN 1 ELSE d[c]]
Tally(d, code) ==
    [c \in DOMAIN d \cup {code} |-> IF c = code THEN DictGet(d, code, 0) + 1 ELSE d[c]]

(* sum(d.values()) *)
RECURSIVE SumValues(_)
SumValues(d) ==
    IF DOMAIN d = {} THEN 0
    ELSE LET k == CHOOSE x \in DOMAIN d : TRUE
         IN d[k] + SumValues([c \in DOMAIN d \ {k} |-> d[c]])

(* The except clauses of make_request: which exceptions they catch.        *)
(* Every httpx exception derives from Exception, so the last clause        *)
(* catches whatever the first two do not.                                  *)
CaughtNarrow(e) == e \in {"TimeoutException", "ConnectError"}
Caught(e) == e \in Exceptions

(* The string each except clause appends to errors. *)
ErrorTextGeneric(request_id, e) ==
    IF e = "ConnectError" THEN [id |-> request_id, text |-> "Connection error"]
    ELSE [id |-> request_id, text |-> e]
ErrorText(request_id, e) ==
    IF e = "TimeoutException" THEN [id |-> request_id, text |-> "Timeout"]
    ELSE IF e = "ConnectError" THEN [id |-> request_id, text |-> "Connection error"]
    ELSE [id |-> request_id, text |-> e]

(* errors after the except clauses have handled exception e of request i *)
HandleSkipConnect(errs, request_id, e) ==
    IF e = "none" \/ e = "ConnectError" THEN errs
    ELSE Append(errs, ErrorText(request_id, e))
Handle(errs, request_id, e) ==
    IF e = "none" THEN errs ELSE Append(errs, ErrorText(request_id, e))

(* response_times after a response with the given elapsed time arrived *)
RecordElapsedTwice(times, elapsed) == Append(Append(times, elapsed), elapsed)
RecordElapsed(times, elapsed) == Append(times, elapsed)

(* the argument make_request passes to progress_callback *)
CallbackArgId(count, request_id) == request_id + 1
CallbackArgAhead(count, request_id) == count + 1
CallbackArgBefore(count, request_id) == count - 1
CallbackArg(count, request_id) == count

(* make_request, line 59: start_time is the clock reading when the line    *)
(* runs, inside `async with semaphore`; started is the reading at the      *)
(* creation of the coroutines.                                             *)
StartTimeAtCreation(reading, started) == started
StartTime(reading, started) == reading

(* make_request, line 74: (time.perf_counter() - start_time) * 1000 *)
ElapsedMs(reading, start) == (reading - start) * 1000

(* asyncio.gather over the tasks returns once every task has finished *)
GatherAny(pcs) == \E i \in DOMAIN pcs : pcs[i] = "done"
GatherSwallow(pcs) == \A i \in DOMAIN pcs : pcs[i] \in {"done", "raised"}
GatherDone(pcs) == \A i \in DOMAIN pcs : pcs[i] = "done"

(* ------------------------ arithmetic ----------------------------------- *)
(* Python computes the statistics in floats; here a number is the exact    *)
(* rational it approximates, <<numerator, denominator>> in lowest terms    *)
(* with a positive denominator.                                            *)
Abs(n) == IF n < 0 THEN -n ELSE n

RECURSIVE GCD(_, _)
GCD(a, b) == IF b = 0 THEN a ELSE GCD(b, a % b)

Rat(n, d) ==
    LET g == GCD(Abs(n), Abs(d))
        sgn == IF d < 0 THEN -1 ELSE 1
    IN <<(sgn * n) \div g, (sgn * d) \div g>>

Zero == <<0, 1>>
(* the value of an expression whose evaluation raised *)
Undefined == <<0, 0>>
Num(i) == <<i, 1>>
RAdd(a, b) == Rat(a[1] * b[2] + b[1] * a[2], a[2] * b[2])
RSub(a, b) == Rat(a[1] * b[2] - b[1] * a[2], a[2] * b[2])
RMul(a, b) == Rat(a[1] * b[1], a[2] * b[2])
RDiv(a, b) == Rat(a[1] * b[2], a[2] * b[1])
RLe(a, b) == a[1] * b[2] <= b[1] * a[2]
RLt(a, b) == a[1] * b[2] < b[1] * a[2]
(* int(x): truncation towards zero *)
Trunc(a) == IF a[1] >= 0 THEN a[1] \div a[2] ELSE -((-a[1]) \div a[2])

(* math.sqrt of the sample variance: kept as its radicand unless 0 *)
Sqrt(q) == IF q = Zero THEN Zero ELSE <<"sqrt", q>>

(* sum(data) of a list of integer millisecond values *)
RECURSIVE SumSeq(_)
SumSeq(data) == IF data = << >> THEN 0 ELSE Head(data) + SumSeq(Tail(data))

RECURSIVE SumSquares(_)
SumSquares(data) ==
    IF data = << >> THEN 0 ELSE Head(data) * Head(data) + SumSquares(Tail(data))

(* sorted(data) *)
RECURSIVE Insert(_, _)
Insert(x, sorted_data) ==
    IF sorted_data = << >> THEN <<x>>
    ELSE IF x <= Head(sorted_data) THEN <<x>> \o sorted_data
    ELSE <<Head(sorted_data)>> \o Insert(x, Tail(sorted_data))

RECURSIVE Sorted(_)
Sorted(data) == IF data = << >> THEN << >> ELSE Insert(Head(data), Sorted(Tail(data)))

(* statistics.mean; raises StatisticsError on an empty list *)
Mean(data) == IF data = << >> THEN Undefined ELSE Rat(SumSeq(data), Len(data))

(* statistics.median: the middle value, or the mean of the two middle ones *)
MedianUnsorted(data) ==
    IF data = << >> THEN Undefined
    ELSE LET n == Len(data)
             i == n \div 2
         IN IF n % 2 = 1 THEN Num(data[i + 1]) ELSE Rat(data[i] + data[i + 1], 2)
Median(data) ==
    IF data = << >> THEN Undefined
    ELSE LET sd == Sorted(data)
             n == Len(data)
             i == n \div 2
         IN IF n % 2 = 1 THEN Num(sd[i + 1]) ELSE Rat(sd[i] + sd[i + 1], 2)

(* statistics.stdev: sample standard deviation, n - 1 in the denominator;  *)
(* raises StatisticsError with fewer than two values                       *)
Stdev(data) ==
    IF Len(data) < 2 THEN Undefined
    ELSE LET n == Len(data)
             t == SumSeq(data)
         IN Sqrt(Rat(n * SumSquares(data) - t * t, n * (n - 1)))

(* _percentile, lines 162-174; sorted_data[j] of the code is sd[j + 1] *)
PercentileNearest(sorted_data, percentile) ==
    IF sorted_data = << >> THEN Zero
    ELSE Num(sorted_data[Trunc(RMul(Num(Len(sorted_data) - 1), Rat(percentile, 100))) + 1])
_percentile(sorted_data, percentile) ==
    IF sorted_data = << >> THEN Zero
    ELSE LET n == Len(sorted_data)
             k == RMul(Num(n - 1), Rat(percentile, 100))
             f == Trunc(k)
             c == IF f + 1 < n THEN f + 1 ELSE f
         IN IF f = c THEN Num(sorted_data[f + 1])
            ELSE RAdd(RMul(Num(sorted_data[f + 1]), RSub(Num(c), k)),
                      RMul(Num(sorted_data[c + 1]), RSub(k, Num(f))))

(* _calculate_stats, line 130 *)
SuccessRateOfFailed(successful, total_requests) ==
    IF total_requests > 0
    THEN RMul(Rat(total_requests - successful, total_requests), Num(100)) ELSE Zero
SuccessRateUnguarded(successful, total_requests) ==
    IF total_requests = 0 THEN Undefined
    ELSE RMul(Rat(successful, total_requests), Num(100))
SuccessRate(successful, total_requests) ==
    IF total_requests > 0 THEN RMul(Rat(successful, total_requests), Num(100)) ELSE Zero

(* _calculate_stats, line 134; duration is a rational number of seconds *)
RpsOfSuccessful(total_requests, successful, duration) ==
    IF RLt(Zero, duration) THEN RDiv(Num(successful), duration) ELSE Zero
Rps(total_requests, successful, duration) ==
    IF RLt(Zero, duration) THEN RDiv(Num(total_requests), duration) ELSE Zero

(* errors[:10] *)
ErrorLimit == 10
TruncateLast(errs) ==
    SubSeq(errs, IF Len(errs) < ErrorLimit THEN 1 ELSE Len(errs) - ErrorLimit + 1, Len(errs))
Truncate(errs) == SubSeq(errs, 1, IF Len(errs) < ErrorLimit THEN Len(errs) ELSE ErrorLimit)

(* _calculate_stats, line 145: stdev, 0 with fewer than two samples *)
StdevUnguarded(times) == Stdev(times)
StdevGuarded(times) == IF Len(times) > 1 THEN Stdev(times) ELSE Zero

(* _calculate_stats, lines 137-158: the latency fields *)
LatencyStats(times) ==
    IF times # << >>
    THEN LET sorted_times == Sorted(times)
         IN [avg_response_time |-> Mean(times),
             min_response_time |-> Num(sorted_times[1]),
             max_response_time |-> Num(sorted_times[Len(sorted_times)]),
             median_response_time |-> Median(times),
             stdev_response_time |-> StdevGuarded(times),
             p95_response_time |-> _percentile(sorted_times, 95),
             p99_response_time |-> _percentile(sorted_times, 99)]
    ELSE [avg_response_time |-> Zero,
          min_response_time |-> Zero,
          max_response_time |-> Zero,
          median_response_time |-> Zero,
          stdev_response_time |-> Zero,
          p95_response_time |-> Zero,
          p99_response_time |-> Zero]

(* _calculate_stats *)
_calculate_statsAllOutcomes(times, codes, errs, total_requests, duration) ==
    LET successful == Len(times)
        failed == total_requests - successful
    IN [total_requests |-> total_requests,
        successful |-> successful,
        failed |-> failed,
        success_rate |-> SuccessRate(successful, total_requests),
        status_codes |-> codes,
        errors |-> Truncate(errs),
        duration |-> duration,
        rps |-> Rps(total_requests, successful, duration)]
       @@ LatencyStats(times \o [k \in 1..Len(errs) |-> 0])
_calculate_stats(times, codes, errs, total_requests, duration) ==
    LET successful == Len(times)
        failed == total_requests - successful
    IN [total_requests |-> total_requests,
        successful |-> successful,
        failed |-> failed,
        success_rate |-> SuccessRate(successful, total_requests),
        status_codes |-> codes,
        errors |-> Truncate(errs),
        duration |-> duration,
        rps |-> Rps(total_requests, successful, duration)]
       @@ LatencyStats(times)

(* ---------------------------- state ------------------------------------ *)

Init ==
    /\ requests \in RequestCounts
    /\ concurrent \in ConcurrentValues
    /\ progress_callback \in CallbackKinds
    /\ run_pc = "start"
    /\ semaphore = 0
    /\ tasks = << >>
    /\ pc = << >>
    /\ exc = << >>
    /\ issued = << >>
    /\ response_times = << >>
    /\ status_codes = << >>
    /\ errors = << >>
    /\ completed = 0
    /\ progress = << >>
    /\ result = Null
    /\ now = 0
    /\ test_start = 0
    /\ start_time = << >>
    /\ admitted = << >>
    /\ cli = NoCli

(* run(), lines 46-99: create the collections, the semaphore and the       *)
(* coroutines, and hand them to gather.                                    *)
RunStart ==
    /\ run_pc = "start"
    /\ concurrent >= 0
    /\ semaphore' = concurrent
    /\ tasks' = Range(requests)
    /\ pc' = [i \in Elems(tasks') |-> "gate"]
    /\ exc' = [i \in Elems(tasks') |-> "none"]
    /\ issued' = [i \in Elems(tasks') |-> 0]
    /\ test_start' = now
    /\ start_time' = [i \in Elems(tasks') |-> now]
    /\ admitted' = [i \in Elems(tasks') |-> now]
    /\ run_pc' = "gather"
    /\ UNCHANGED <<cli, now,
                   requests, concurrent, progress_callback, response_times,
                   status_codes, errors, completed, progress, result>>

(* run(), line 53: asyncio.Semaphore(concurrent) raises ValueError for a  *)
(* negative value, and run() ends with it before any task exists.          *)
RunStartError ==
    /\ run_pc = "start"
    /\ concurrent < 0
    /\ run_pc' = "raised"
    /\ UNCHANGED <<cli, now, test_start, start_time, admitted,
                   requests, concurrent, progress_callback, semaphore, tasks,
                   pc, exc, issued, response_times, status_codes, errors,
                   completed, progress, result>>

(* make_request(i), lines 58-72: the semaphore admits the unit, which      *)
(* takes start_time, opens the client and sends its request.               *)
Acquire(i) ==
    /\ i \in DOMAIN pc
    /\ pc[i] = "gate"
    /\ ~Locked(semaphore)
    /\ semaphore' = semaphore - 1
    /\ pc' = [pc EXCEPT ![i] = "request"]
    /\ issued' = [issued EXCEPT ![i] = @ + 1]
    /\ admitted' = [admitted EXCEPT ![i] = now]
    /\ start_time' = [start_time EXCEPT ![i] = StartTime(now, test_start)]
    /\ UNCHANGED <<cli, now, test_start,
                   requests, concurrent, progress_callback, run_pc, tasks, exc,
                   response_times, status_codes, errors, completed, progress,
                   result>>

(* make_request(i), lines 64-78: the awaited call returns a response; the  *)
(* elapsed time and the status code are recorded, then the client context  *)
(* exits (an await).                                                       *)
Respond(i) ==
    /\ i \in DOMAIN pc
    /\ pc[i] = "request"
    /\ \E elapsed \in ElapsedValues, code \in StatusCodes :
        /\ response_times' = RecordElapsed(response_times, elapsed)
        /\ status_codes' = Tally(status_codes, code)
    /\ pc' = [pc EXCEPT ![i] = "exit"]
    /\ UNCHANGED <<cli, now, test_start, start_time, admitted,
                   requests, concurrent, progress_callback, run_pc, semaphore,
                   tasks, exc, issued, errors, completed, progress, result>>

(* make_request(i), lines 64-72: the awaited call raises; the exception    *)
(* leaves the client context (an await) before any except clause runs.     *)
Fail(i) ==
    /\ i \in DOMAIN pc
    /\ pc[i] = "request"
    /\ \E e \in Exceptions : exc' = [exc EXCEPT ![i] = e]
    /\ pc' = [pc EXCEPT ![i] = "exit"]
    /\ UNCHANGED <<cli, now, test_start, start_time, admitted,
                   requests, concurrent, progress_callback, run_pc, semaphore,
                   tasks, issued, response_times, status_codes, errors,
                   completed, progress, result>>

(* make_request(i), lines 80-90 and the exit of `async with semaphore`:    *)
(* the except clause matching the pending exception appends to errors, the *)
(* finally block counts the unit and calls the callback, the permit is     *)
(* released.  cb_raises: the callback raises, which ends the task with     *)
(* that exception after the release.                                       *)
Finish(i, cb_raises) ==
    /\ i \in DOMAIN pc
    /\ pc[i] = "exit"
    /\ cb_raises => progress_callback = "raises"
    /\ errors' = IF Caught(exc[i]) THEN Handle(errors, i, exc[i]) ELSE errors
    /\ completed' = completed + 1
    /\ progress' = IF progress_callback = "none" THEN progress
                   ELSE Append(progress, CallbackArg(completed', i))
    /\ semaphore' = Release(semaphore)
    /\ pc' = [pc EXCEPT ![i] =
                IF cb_raises \/ (exc[i] # "none" /\ ~Caught(exc[i]))
                THEN "raised" ELSE "done"]
    /\ exc' = [exc EXCEPT ![i] = "none"]
    /\ UNCHANGED <<cli, now, test_start, start_time, admitted,
                   requests, concurrent, progress_callback, run_pc, tasks,
                   issued, response_times, status_codes, result>>

(* run(), lines 99-111: gather returns when every task is done; the stats  *)
(* are computed and returned.                                              *)
RunReturn ==
    /\ run_pc = "gather"
    /\ GatherDone(pc)
    /\ \E test_duration \in Durations :
        result' = _calculate_stats(response_times, status_codes, errors,
                                   requests, test_duration)
    /\ run_pc' = "returned"
    /\ UNCHANGED <<cli, now, test_start, start_time, admitted,
                   requests, concurrent, progress_callback, semaphore, tasks,
                   pc, exc, issued, response_times, status_codes, errors,
                   completed, progress>>

(* run(), line 99: gather re-raises the first exception a task ended with; *)
(* the other tasks are not cancelled.                                      *)
RunRaise ==
    /\ run_pc = "gather"
    /\ \E i \in DOMAIN pc : pc[i] = "raised"
    /\ run_pc' = "raised"
    /\ UNCHANGED <<cli, now, test_start, start_time, admitted,
                   requests, concurrent, progress_callback, semaphore, tasks,
                   pc, exc, issued, response_times, status_codes, errors,
                   completed, progress, result>>

Units == 0..(MaxRequests - 1)

Next ==
    \/ RunStart
    \/ RunStartError
    \/ \E i \in Units : Acquire(i)
    \/ \E i \in Units : Respond(i)
    \/ \E i \in Units : Fail(i)
    \/ \E i \in Units : Finish(i, FALSE)
    \/ \E i \in Units : Finish(i, TRUE)
    \/ RunReturn
    \/ RunRaise

Spec == Init /\ [][Next]_vars

(* The event loop runs every task that is ready, and every request in      *)
(* flight ends: httpx answers, fails or times out after `timeout` seconds. *)
ReturnEnabled == run_pc = "gather" /\ GatherDone(pc)

(* WF_vars(RunReturn) is spelled out with ReturnEnabled for                *)
(* ENABLED <<RunReturn>>_vars: RunReturn always changes result.            *)
Fairness ==
    /\ WF_vars(RunStart)
    /\ WF_vars(RunStartError)
    /\ ([]<>(~ReturnEnabled) \/ []<><<RunReturn>>_vars)
    /\ WF_vars(RunRaise)
    /\ \A i \in Units :
        /\ WF_vars(Acquire(i))
        /\ WF_vars(Respond(i) \/ Fail(i))
        /\ WF_vars(Finish(i, FALSE) \/ Finish(i, TRUE))

FairInit == Init /\ requests <= MaxFairRequests

FairSpec == FairInit /\ [][Next]_vars /\ Fairness

(* ----------------------- properties of the run ------------------------- *)

Min(a, b) == IF a < b THEN a ELSE b

(* the units holding a permit: admitted and not yet released *)
InFlight == {i \in DOMAIN pc : pc[i] \in {"request", "exit"}}
AtGate == {i \in DOMAIN pc : pc[i] = "gate"}
(* the request ids that have an entry in errors *)
ErrorIds == {errors[k].id : k \in DOMAIN errors}
(* the units whose response has been recorded *)
Responded ==
    {i \in DOMAIN pc : \/ (pc[i] = "exit" /\ exc[i] = "none")
                      \/ (pc[i] \in {"done", "raised"} /\ i \notin ErrorIds)}
GateExists == run_pc # "start" /\ concurrent >= 0

(* C1: with concurrent >= 1 the number of requests in flight (admitted by  *)
(* the semaphore, not yet released) never exceeds min(concurrent,          *)
(* requests); with concurrent = 1 at most one is in flight.                *)
C1_InFlightBounded ==
    concurrent >= 1 => Cardinality(InFlight) <= Min(concurrent, requests)

C1_Witness ==
    /\ concurrent >= 1
    /\ requests > concurrent
    /\ Cardinality(InFlight) = concurrent
    /\ AtGate # {}

(* C2: a result exists only when every one of the `requests` units has     *)
(* recorded its outcome and released the gate; none is waiting or in       *)
(* flight.                                                                 *)
C2_ResultAfterAllUnits ==
    result # Null =>
        /\ \A i \in 0..(requests - 1) : i \in DOMAIN pc /\ pc[i] = "done"
        /\ InFlight = {} /\ AtGate = {}
        /\ completed = requests

C2_Witness ==
    /\ result # Null
    /\ requests >= 2
    /\ response_times # << >>
    /\ errors # << >>

(* C3: the run creates the units 0..requests-1, each once, and a unit      *)
(* sends at most one HTTP request; a finished unit has sent exactly one,   *)
(* a failed one is not sent again.                                         *)
C3_OneRequestPerUnit ==
    run_pc \in {"gather", "returned"} =>
        /\ Len(tasks) = requests
        /\ \A k \in 1..Len(tasks) : tasks[k] = k - 1
        /\ DOMAIN pc = 0..(requests - 1)
        /\ \A i \in DOMAIN pc :
            /\ issued[i] <= 1
            /\ pc[i] # "gate" => issued[i] = 1

C3_Witness ==
    /\ run_pc = "returned"
    /\ requests >= 2
    /\ \E k \in DOMAIN errors : errors[k].text = "Timeout"
    /\ \A i \in DOMAIN pc : issued[i] = 1

(* C4: each unit records exactly one outcome: a response time with one     *)
(* status-code tally, or one error string, never both and never neither;   *)
(* when the run returns, response times plus error strings = requests.     *)
C4_OneOutcomePerUnit ==
    /\ Cardinality(ErrorIds) = Len(errors)
    /\ \A i \in ErrorIds : i \in DOMAIN pc /\ pc[i] \in {"done", "raised"}
    /\ Len(response_times) = Cardinality(Responded)
    /\ \A i \in DOMAIN pc :
        pc[i] \in {"gate", "request"} => i \notin ErrorIds /\ i \notin Responded
    /\ completed = Cardinality({i \in DOMAIN pc : pc[i] \in {"done", "raised"}})
    /\ run_pc = "returned" => Len(response_times) + Len(errors) = requests

C4_Witness ==
    /\ run_pc = "returned"
    /\ concurrent >= 2
    /\ Len(response_times) >= 1
    /\ Len(errors) >= 1
    /\ Len(response_times) + Len(errors) = requests

(* C5: the values passed to the progress callback never decrease, and      *)
(* when a run of at least one request returns, the last value passed is    *)
(* requests.                                                               *)
C5_ProgressMonotone ==
    /\ \A k \in 1..(Len(progress) - 1) : progress[k] <= progress[k + 1]
    /\ (run_pc = "returned" /\ progress_callback # "none" /\ requests >= 1) =>
            /\ progress # << >>
            /\ progress[Len(progress)] = requests

C5_Witness ==
    /\ run_pc = "returned"
    /\ progress_callback = "ok"
    /\ requests >= 2
    /\ errors # << >>
    /\ errors[1].id = requests - 1
    /\ progress[Len(progress)] = requests

(* C6: a unit that acquired the gate releases it exactly once, whatever    *)
(* the outcome of its request: the free permits plus the units in flight   *)
(* always equal concurrent, and once all units are finished every permit   *)
(* is free again.                                                          *)
C6_PermitsConserved ==
    GateExists =>
        /\ semaphore + Cardinality(InFlight) = concurrent
        /\ run_pc = "returned" => semaphore = concurrent

C6_Witness ==
    /\ run_pc = "returned"
    /\ concurrent >= 1
    /\ semaphore = concurrent
    /\ response_times # << >>
    /\ \E k \in DOMAIN errors : errors[k].text = "Timeout"
    /\ \E k \in DOMAIN errors : errors[k].text \notin {"Timeout", "Connection error"}

(* C7: with concurrent >= 1, every request in flight ending, and a         *)
(* callback that returns, every unit waiting at the gate is eventually     *)
(* admitted and the run eventually returns a result.                       *)
C7_NoStarvation ==
    /\ \A i \in 0..(MaxRequests - 1) :
        (concurrent >= 1 /\ i \in AtGate) ~> (i \in DOMAIN pc /\ pc[i] # "gate")
    /\ (concurrent >= 1 /\ progress_callback # "raises") ~> (run_pc = "returned")

C7_Witness ==
    /\ run_pc = "returned"
    /\ concurrent >= 1
    /\ requests > concurrent
    /\ result.total_requests = requests

(* C8: a request that fails (timeout, connection error, any other          *)
(* exception) is recorded as an error of that request and does not end     *)
(* its task or the run with an exception; the run still returns a result.  *)
C8_FailureRecorded ==
    \A i \in DOMAIN pc :
        (pc[i] = "exit" /\ exc[i] # "none" /\ pc'[i] # "exit") =>
            /\ Len(errors') = Len(errors) + 1
            /\ errors'[Len(errors')].id = i
            /\ progress_callback # "raises" => pc'[i] = "done"

C8_FailureNeverAborts ==
    /\ []((progress_callback # "raises" /\ concurrent >= 0) =>
            (run_pc # "raised" /\ \A i \in DOMAIN pc : pc[i] # "raised"))
    /\ [][C8_FailureRecorded]_vars
    /\ (concurrent >= 1 /\ progress_callback # "raises" /\ errors # << >>)
            ~> (run_pc = "returned" /\ result.failed >= 1)

C8_Witness ==
    /\ run_pc = "returned"
    /\ requests >= 2
    /\ concurrent = 1
    /\ errors # << >>
    /\ errors[1].id = 0
    /\ Len(response_times) >= 1
    /\ result.failed = Len(errors)

(* C9: in the result, successful + failed = requests, successful is the    *)
(* number of requests that got a response and failed the number that       *)
(* recorded a failure.                                                     *)
C9_CountsAddUp ==
    run_pc = "returned" =>
        /\ result.successful + result.failed = requests
        /\ result.successful = Cardinality(Responded)
        /\ result.failed = Len(errors)
        /\ result.failed >= 0
        /\ result.successful <= requests

C9_Witness ==
    /\ run_pc = "returned"
    /\ result.successful >= 1
    /\ result.failed >= 1
    /\ \E k \in DOMAIN errors : errors[k].text = "Connection error"

(* C10: the counts in status_codes add up to the number of responses       *)
(* received, in every state and in the result; a failed request adds to    *)
(* none of them.                                                           *)
C10_StatusCodesSum ==
    /\ SumValues(status_codes) = Cardinality(Responded)
    /\ \A c \in DOMAIN status_codes : c \in StatusCodes /\ status_codes[c] >= 1
    /\ run_pc = "returned" =>
            /\ SumValues(result.status_codes) = result.successful
            /\ result.successful = requests - Len(errors)

C10_Witness ==
    /\ run_pc = "returned"
    /\ errors # << >>
    /\ \E c \in DOMAIN result.status_codes : result.status_codes[c] >= 2

(* ----------------------- properties of the result ---------------------- *)

Returned == run_pc = "returned"

(* C11: in every result 0 <= success_rate <= 100; success_rate is          *)
(* successful / requests * 100 when requests > 0 and 0 when requests = 0.  *)
C11_SuccessRate ==
    Returned =>
        /\ RLe(Zero, result.success_rate)
        /\ RLe(result.success_rate, <<100, 1>>)
        /\ requests > 0 =>
            result.success_rate[1] * requests
                = 100 * result.successful * result.success_rate[2]
        /\ requests = 0 => result.success_rate = Zero

C11_Witness ==
    /\ Returned
    /\ requests = 3
    /\ result.successful = 1
    /\ result.success_rate = <<100, 3>>

(* C13: a request that gets a response, whatever its status code, adds     *)
(* one response time and one status-code tally and nothing to errors; in   *)
(* the result it counts as successful, not as failed.                      *)
C13_ResponseStep ==
    \A i \in DOMAIN pc :
        (pc[i] = "request" /\ pc'[i] = "exit" /\ exc'[i] = "none") =>
            /\ Len(response_times') = Len(response_times) + 1
            /\ \E code \in StatusCodes :
                /\ code \in DOMAIN status_codes'
                /\ status_codes'[code] = DictGet(status_codes, code, 0) + 1
                /\ \A c \in DOMAIN status_codes : c # code => status_codes'[c] = status_codes[c]
                /\ DOMAIN status_codes' = DOMAIN status_codes \cup {code}
            /\ errors' = errors

C13_AnyResponseIsSuccess ==
    /\ [][C13_ResponseStep]_vars
    /\ [](Returned =>
            /\ result.successful = SumValues(result.status_codes)
            /\ result.failed = Len(errors)
            /\ Len(result.errors) = Len(errors))

C13_Witness ==
    /\ Returned
    /\ requests >= 2
    /\ DOMAIN result.status_codes = {500}
    /\ result.successful = requests
    /\ result.failed = 0
    /\ result.errors = << >>

(* C14: a request whose timeout expires records one error string naming    *)
(* the timeout, and neither a response time nor a status-code tally.       *)
C14_TimeoutStep ==
    \A i \in DOMAIN pc :
        /\ (pc[i] = "request" /\ exc'[i] = "TimeoutException") =>
                response_times' = response_times /\ status_codes' = status_codes
        /\ (pc[i] = "exit" /\ exc[i] = "TimeoutException" /\ pc'[i] # "exit") =>
                /\ errors' = Append(errors, [id |-> i, text |-> "Timeout"])
                /\ response_times' = response_times
                /\ status_codes' = status_codes

C14_TimeoutIsFailure == [][C14_TimeoutStep]_vars

C14_Witness ==
    /\ Returned
    /\ \E k \in DOMAIN errors : errors[k].text = "Timeout"
    /\ Len(response_times) = requests - 1
    /\ result.failed = 1

(* C15: a connection-level failure (DNS failure, connection refused,       *)
(* connection reset, TLS failure) is recorded with the text of a           *)
(* connection error, not as a timeout and not as another error.            *)
C15_ConnectionStep ==
    \A i \in DOMAIN pc :
        (pc[i] = "exit" /\ exc[i] \in ConnectionFailures /\ pc'[i] # "exit") =>
            /\ Len(errors') = Len(errors) + 1
            /\ errors'[Len(errors')] = [id |-> i, text |-> "Connection error"]

C15_ConnectionFailureClassified == [][C15_ConnectionStep]_vars

(* C16: when no request got a response, run returns a result with          *)
(* successful = 0, success_rate = 0 and the seven latency fields 0; with   *)
(* requests = 0 also failed = 0 and rps = 0.                               *)
C16_NoResponses ==
    (Returned /\ response_times = << >>) =>
        /\ result.successful = 0
        /\ result.success_rate = Zero
        /\ result.avg_response_time = Zero
        /\ result.min_response_time = Zero
        /\ result.max_response_time = Zero
        /\ result.median_response_time = Zero
        /\ result.stdev_response_time = Zero
        /\ result.p95_response_time = Zero
        /\ result.p99_response_time = Zero
        /\ requests = 0 => (result.failed = 0 /\ result.rps = Zero)

C16_Witness ==
    /\ Returned
    /\ requests >= 2
    /\ Len(errors) = requests
    /\ result.failed = requests
    /\ result.success_rate = Zero
    /\ result.p99_response_time = Zero

(* C20: rps is requests / duration when duration > 0 and 0 when duration   *)
(* is 0; failed requests are counted.                                      *)
C20_Rps ==
    Returned =>
        /\ RLt(Zero, result.duration) =>
            result.rps[1] * result.duration[1]
                = requests * result.duration[2] * result.rps[2]
        /\ result.duration = Zero => result.rps = Zero

C20_Witness ==
    /\ Returned
    /\ result.duration = <<3, 2>>
    /\ requests = 3
    /\ result.failed = 2
    /\ result.rps = <<2, 1>>

(* ------------------- _calculate_stats on its own ----------------------- *)
(* The state of a run whose units are all done, at the return of gather:   *)
(* the lists the units left behind are drawn from bounded sets, and        *)
(* RunReturn reduces them.                                                 *)

SampleValues == {100, 200, 1000}
StatsConcurrent == {2, 5}

SeqsUpTo(S, n) == UNION {[1..m -> S] : m \in 0..n}

(* nine responses of 100 ms and one of 1000 ms, in every completion order *)
ScenarioA == {[k \in 1..10 |-> IF k = j THEN 1000 ELSE 100] : j \in 1..10}

SampleLists == SeqsUpTo(SampleValues, MaxSamples) \cup ScenarioA

(* the request ids of f failed units out of n, in completion order *)
FailureOrders(n, f) ==
    IF n <= MaxFreeRequests
    THEN {ids \in [1..f -> 0..(n - 1)] :
            \A a, b \in 1..f : a # b => ids[a] # ids[b]}
    ELSE {[k \in 1..f |-> n - f + k - 1], [k \in 1..f |-> n - k]}

StatsInit ==
    /\ response_times \in SampleLists
    /\ \E f \in 0..MaxFailures :
        /\ requests = Len(response_times) + f
        /\ \E ids \in FailureOrders(requests, f), e \in Exceptions :
            errors = [k \in 1..f |-> ErrorText(ids[k], e)]
    /\ status_codes = IF response_times = << >> THEN << >>
                      ELSE (200 :> Len(response_times))
    /\ concurrent \in StatsConcurrent
    /\ progress_callback = "none"
    /\ run_pc = "gather"
    /\ semaphore = concurrent
    /\ tasks = [k \in 1..requests |-> k - 1]
    /\ pc = [i \in 0..(requests - 1) |-> "done"]
    /\ exc = [i \in 0..(requests - 1) |-> "none"]
    /\ issued = [i \in 0..(requests - 1) |-> 1]
    /\ completed = requests
    /\ progress = << >>
    /\ result = Null
    /\ now = 0
    /\ test_start = 0
    /\ start_time = [i \in 0..(requests - 1) |-> 0]
    /\ admitted = [i \in 0..(requests - 1) |-> 0]
    /\ cli = NoCli

StatsNext == RunReturn

StatsSpec == StatsInit /\ [][StatsNext]_vars

(* C12: result.errors is the first min(10, F) entries of the failures in   *)
(* the order they were recorded, F the number of failed requests; never    *)
(* more than 10, nothing reordered, nothing dropped as a duplicate.        *)
C12_ErrorsTruncated ==
    Returned =>
        /\ Len(result.errors) = (IF result.failed < 10 THEN result.failed ELSE 10)
        /\ Len(result.errors) <= 10
        /\ \A k \in 1..Len(result.errors) : result.errors[k] = errors[k]

C12_Witness ==
    /\ Returned
    /\ result.failed = 11
    /\ Len(result.errors) = 10
    /\ errors[1].id > errors[2].id
    /\ result.errors[10] = errors[10]

(* C18: ten requests, concurrent = 5, all answered, nine in 100 ms and one *)
(* in 1000 ms in any completion order: avg 190, min 100, max 1000, median  *)
(* 100, p95 595, success_rate 100, failed 0.                               *)
C18_ScenarioA ==
    ( /\ Returned
      /\ requests = 10
      /\ concurrent = 5
      /\ Len(response_times) = 10
      /\ \E j \in 1..10 : \A k \in 1..10 :
            response_times[k] = (IF k = j THEN 1000 ELSE 100) ) =>
        /\ result.avg_response_time = <<190, 1>>
        /\ result.min_response_time = <<100, 1>>
        /\ result.max_response_time = <<1000, 1>>
        /\ result.median_response_time = <<100, 1>>
        /\ result.p95_response_time = <<595, 1>>
        /\ result.success_rate = <<100, 1>>
        /\ result.failed = 0

C18_Witness ==
    /\ Returned
    /\ requests = 10
    /\ concurrent = 5
    /\ Len(response_times) = 10
    /\ response_times[3] = 1000
    /\ \A k \in (1..10) \ {3} : response_times[k] = 100
    /\ result.p95_response_time = <<595, 1>>

(* C19: five requests, concurrent = 2, three answered in 200 ms and two    *)
(* timed out, in any order: successful 3, failed 2, success_rate 60,       *)
(* avg = min = max = median = 200 and stdev 0 from the three samples only, *)
(* and errors has two entries, each naming a timeout.                      *)
C19_ScenarioB ==
    ( /\ Returned
      /\ requests = 5
      /\ concurrent = 2
      /\ response_times = <<200, 200, 200>>
      /\ Len(errors) = 2
      /\ \A k \in 1..2 : errors[k].text = "Timeout" ) =>
        /\ result.successful = 3
        /\ result.failed = 2
        /\ result.success_rate = <<60, 1>>
        /\ result.avg_response_time = <<200, 1>>
        /\ result.min_response_time = <<200, 1>>
        /\ result.max_response_time = <<200, 1>>
        /\ result.median_response_time = <<200, 1>>
        /\ result.stdev_response_time = Zero
        /\ Len(result.errors) = 2
        /\ \A k \in 1..2 : result.errors[k].text = "Timeout"

C19_Witness ==
    /\ Returned
    /\ requests = 5
    /\ concurrent = 2
    /\ response_times = <<200, 200, 200>>
    /\ errors = <<[id |-> 4, text |-> "Timeout"], [id |-> 1, text |-> "Timeout"]>>
    /\ result.failed = 2

(* ---------------- the percentiles in floating point -------------------- *)
(* A Python float operation returns the exact result rounded to the        *)
(* nearest number with a significand of 53 bits, ties to even.  Fl is that *)
(* rounding for a significand of FloatBits bits; the operators below are   *)
(* lines 144-147 and 162-174 with every operation rounded.                 *)

RECURSIVE Pow2(_)
Pow2(n) == IF n = 0 THEN 1 ELSE 2 * Pow2(n - 1)

(* the integer nearest to the rational q >= 0, ties to even *)
RoundHalfEven(q) ==
    LET m == q[1] \div q[2]
        r == 2 * (q[1] % q[2])
    IN IF r > q[2] \/ (r = q[2] /\ m % 2 = 1) THEN m + 1 ELSE m

(* q * 2^e rounded, for q > 0 *)
RECURSIVE FlScale(_, _)
FlScale(q, e) ==
    IF RLe(Num(Pow2(FloatBits)), q) THEN FlScale(RDiv(q, Num(2)), e + 1)
    ELSE IF RLt(q, Num(Pow2(FloatBits - 1))) THEN FlScale(RMul(q, Num(2)), e - 1)
    ELSE IF e >= 0 THEN Num(RoundHalfEven(q) * Pow2(e))
    ELSE Rat(RoundHalfEven(q), Pow2(-e))

Fl(q) ==
    IF q[1] = 0 THEN Zero
    ELSE IF q[1] < 0 THEN RSub(Zero, FlScale(RSub(Zero, q), 0))
    ELSE FlScale(q, 0)

(* _percentile as floats compute it *)
_percentileFloat(sorted_data, percentile) ==
    IF sorted_data = << >> THEN Zero
    ELSE LET n == Len(sorted_data)
             k == Fl(RMul(Num(n - 1), Fl(Rat(percentile, 100))))
             f == Trunc(k)
             c == IF f + 1 < n THEN f + 1 ELSE f
         IN IF f = c THEN Num(sorted_data[f + 1])
            ELSE Fl(RAdd(Fl(RMul(Num(sorted_data[f + 1]), Fl(RSub(Num(c), k)))),
                         Fl(RMul(Num(sorted_data[c + 1]), Fl(RSub(k, Num(f)))))))

(* statistics.median as floats compute it *)
MedianFloat(data) ==
    LET sd == Sorted(data)
        n == Len(data)
        i == n \div 2
    IN IF n % 2 = 1 THEN Num(sd[i + 1])
       ELSE Fl(RDiv(Fl(Num(sd[i] + sd[i + 1])), Num(2)))

(* response times in ms that are floats of FloatBits bits: every integer   *)
(* using the full significand, repeated, and short lists of mixed values   *)
FullWidthValues == Pow2(FloatBits - 1)..(Pow2(FloatBits) - 1)
FloatSampleLists ==
    {[k \in 1..n |-> x] : n \in 1..MaxFloatSamples, x \in FullWidthValues}
        \cup (SeqsUpTo({100, 150, 200}, MaxFloatSamples) \ {<< >>})

FloatInit ==
    /\ response_times \in FloatSampleLists
    /\ requests = Len(response_times)
    /\ errors = << >>
    /\ status_codes = (200 :> Len(response_times))
    /\ concurrent \in StatsConcurrent
    /\ progress_callback = "none"
    /\ run_pc = "gather"
    /\ semaphore = concurrent
    /\ tasks = [k \in 1..requests |-> k - 1]
    /\ pc = [i \in 0..(requests - 1) |-> "done"]
    /\ exc = [i \in 0..(requests - 1) |-> "none"]
    /\ issued = [i \in 0..(requests - 1) |-> 1]
    /\ completed = requests
    /\ progress = << >>
    /\ result = Null
    /\ now = 0
    /\ test_start = 0
    /\ start_time = [i \in 0..(requests - 1) |-> 0]
    /\ admitted = [i \in 0..(requests - 1) |-> 0]
    /\ cli = NoCli

(* _calculate_stats, lines 138-147: the median and the two percentiles of  *)
(* the result                                                              *)
FloatReturn ==
    /\ run_pc = "gather"
    /\ GatherDone(pc)
    /\ result' = [total_requests |-> requests,
                  median_response_time |-> MedianFloat(response_times),
                  p95_response_time |-> _percentileFloat(Sorted(response_times), 95),
                  p99_response_time |-> _percentileFloat(Sorted(response_times), 99)]
    /\ run_pc' = "returned"
    /\ UNCHANGED <<cli, now, test_start, start_time, admitted,
                   requests, concurrent, progress_callback, semaphore, tasks,
                   pc, exc, issued, response_times, status_codes, errors,
                   completed, progress>>

FloatNext == FloatReturn

FloatSpec == FloatInit /\ [][FloatNext]_vars

(* C17: for every non-empty list of response times the result has          *)
(* p99 >= p95 >= median, all three equal when the samples are identical.   *)
C17_PercentilesOrdered ==
    (Returned /\ response_times # << >>) =>
        /\ RLe(result.median_response_time, result.p95_response_time)
        /\ RLe(result.p95_response_time, result.p99_response_time)
        /\ (\A k \in DOMAIN response_times : response_times[k] = response_times[1]) =>
            /\ result.p95_response_time = result.median_response_time
            /\ result.p99_response_time = result.p95_response_time

(* ------------------ the callback and failures of the run --------------- *)

(* the number of outcomes recorded in the shared collections *)
Recorded == Len(response_times) + Len(errors)
(* the units that have left make_request *)
Left == {i \in DOMAIN pc : pc[i] \in {"done", "raised"}}

(* C21 as stated: the callback is invoked once per request and only after  *)
(* that request's outcome has been recorded; at every invocation with      *)
(* value c exactly c outcomes (response times plus error strings) have     *)
(* been recorded.                                                          *)
C21_ExactStep ==
    Len(progress') = Len(progress) + 1 =>
        Recorded' = progress'[Len(progress')]

C21_ExactlyRecorded == [][C21_ExactStep]_vars

(* C21 amended: the callback is invoked once per request, when the request *)
(* leaves make_request and after its outcome has been recorded; at every   *)
(* invocation with value c, c requests have left and at least c outcomes   *)
(* have been recorded (a response is recorded before the client context    *)
(* exits, so responses of requests not yet counted may be among them).     *)
C21_RecordedStep ==
    /\ \A i \in DOMAIN pc :
        (pc[i] = "exit" /\ pc'[i] # "exit" /\ progress_callback # "none") =>
            /\ Len(progress') = Len(progress) + 1
            /\ progress'[Len(progress')] = Cardinality(Left')
            /\ progress'[Len(progress')] <= Recorded'
            /\ exc[i] # "none" => i \in ErrorIds'
            /\ exc[i] = "none" => Recorded' = Recorded
    /\ Len(progress') # Len(progress) =>
            \E i \in DOMAIN pc : pc[i] = "exit" /\ pc'[i] # "exit"

C21_RecordedBeforeCallback ==
    /\ [][C21_RecordedStep]_vars
    /\ [](progress_callback # "none" => Len(progress) = Cardinality(Left))

C21_Witness ==
    /\ progress = <<1>>
    /\ Len(response_times) = 1
    /\ Len(errors) = 1
    /\ Cardinality(Left) = 1

(* C22: a failure raised outside any request's lifecycle (the callback     *)
(* raising, the semaphore rejecting its value) ends run() with that        *)
(* exception: no result is returned, and nothing is added to errors for    *)
(* it.                                                                     *)
C22_CallbackRaiseStep ==
    \A i \in DOMAIN pc :
        (pc[i] = "exit" /\ pc'[i] = "raised") =>
            /\ exc[i] = "none" => errors' = errors
            /\ exc[i] # "none" => errors' = Append(errors, ErrorText(i, exc[i]))

C22_OutsideFailurePropagates ==
    /\ [][C22_CallbackRaiseStep]_vars
    /\ []((\E i \in DOMAIN pc : pc[i] = "raised") =>
            run_pc # "returned" /\ result = Null)
    /\ [](concurrent < 0 =>
            /\ run_pc \in {"start", "raised"}
            /\ result = Null
            /\ errors = << >>
            /\ tasks = << >>)
    /\ (\E i \in DOMAIN pc : pc[i] = "raised") ~> (run_pc = "raised")
    /\ (concurrent < 0) ~> (run_pc = "raised")

C22_Witness ==
    /\ run_pc = "raised"
    /\ \E i \in DOMAIN pc : pc[i] = "raised"
    /\ \E i \in DOMAIN pc : pc[i] = "done"
    /\ errors = << >>
    /\ progress # << >>
    /\ result = Null

(* ----------------------- the loadtest command -------------------------- *)
(* cli/commands/loadtest.py: the command reads its options, fills in the   *)
(* configured defaults and calls run() through _run_loadtest.  The state   *)
(* it leaves is the state in which run() starts.                           *)

(* the largest value given to an option *)
MaxOption == 4

(* an option left out is None; one given with value v is <<v>> *)
None == << >>
CountOptions == {None} \cup {<<v>> : v \in 0..MaxOption}
DurationOptions == {None} \cup {<<v>> : v \in 1..MaxOption}

(* utils/config.py: the defaults when no settings file overrides them *)
ConfigRequests == 100
ConfigConcurrent == 10

(* `option or default`: None and 0 are both falsy *)
Or(option, default) ==
    IF option = None THEN default
    ELSE IF option[1] = 0 THEN default ELSE option[1]

(* _run_loadtest, lines 93-100: the arguments it passes to run();          *)
(* update_progress is a callback that returns                              *)
_run_loadtest(total_requests, concurrent_users, duration) ==
    [requests |-> total_requests,
     concurrent |-> concurrent_users,
     progress_callback |-> "ok"]

(* loadtest, lines 41-59: what run() is called with for given options *)
RunArguments(options) ==
    _run_loadtest(Or(options.requests, ConfigRequests),
                  Or(options.concurrent, ConfigConcurrent),
                  options.duration)

CliInit ==
    /\ cli \in [requests : CountOptions, concurrent : CountOptions,
                duration : DurationOptions, url_valid : BOOLEAN]
    /\ run_pc = "cli"
    /\ requests = 0
    /\ concurrent = 0
    /\ progress_callback = "none"
    /\ semaphore = 0
    /\ tasks = << >>
    /\ pc = << >>
    /\ exc = << >>
    /\ issued = << >>
    /\ response_times = << >>
    /\ status_codes = << >>
    /\ errors = << >>
    /\ completed = 0
    /\ progress = << >>
    /\ result = Null
    /\ now = 0
    /\ test_start = 0
    /\ start_time = << >>
    /\ admitted = << >>

(* loadtest, lines 41-59: an invalid URL exits with status 1, a valid one  *)
(* reaches the call of run().                                              *)
loadtest ==
    /\ run_pc = "cli"
    /\ IF cli.url_valid
       THEN /\ requests' = RunArguments(cli).requests
            /\ concurrent' = RunArguments(cli).concurrent
            /\ progress_callback' = RunArguments(cli).progress_callback
            /\ run_pc' = "start"
       ELSE /\ run_pc' = "exit"
            /\ UNCHANGED <<requests, concurrent, progress_callback>>
    /\ UNCHANGED <<cli, now, test_start, start_time, admitted, semaphore,
                   tasks, pc, exc, issued, response_times, status_codes,
                   errors, completed, progress, result>>

CliNext == loadtest

CliSpec == CliInit /\ [][CliNext]_vars

(* C23: when --duration is given it overrides --requests: the number of    *)
(* requests run() is asked to issue is then the same whatever --requests   *)
(* says.                                                                   *)
C23_DurationOverridesRequests ==
    (run_pc = "start" /\ cli.duration # None) =>
        \A n \in CountOptions :
            RunArguments([cli EXCEPT !.requests = n]).requests = requests

(* C24: for every non-empty sorted sample of length n and p in {95, 99},   *)
(* _percentile returns exactly the R-7 value: with k = (n-1)*p/100,        *)
(* f = floor(k), c = min(f+1, n-1), it is sorted[f] when f = c and         *)
(* sorted[f] + (sorted[c] - sorted[f]) * (k - f) otherwise, each operation *)
(* a float operation.                                                      *)
C24_PercentileIsR7 ==
    LET R7(sd, p) ==
            LET n == Len(sd)
                k == Fl(RMul(Num(n - 1), Fl(Rat(p, 100))))
                f == Trunc(k)
                c == Min(f + 1, n - 1)
            IN IF f = c THEN Num(sd[f + 1])
               ELSE Fl(RAdd(Num(sd[f + 1]),
                            Fl(RMul(Fl(RSub(Num(sd[c + 1]), Num(sd[f + 1]))),
                                    Fl(RSub(k, Num(f)))))))
    IN (Returned /\ response_times # << >>) =>
            /\ result.p95_response_time = R7(Sorted(response_times), 95)
            /\ result.p99_response_time = R7(Sorted(response_times), 99)

(* C25: throttling is done by the semaphore only, never by batching: when  *)
(* fewer than concurrent requests are in flight and a unit has not yet     *)
(* been admitted, a permit is free and every waiting unit can be admitted  *)
(* at once, whatever the requests in flight are doing.                     *)
C25_AdmissionNeverBatched ==
    (GateExists /\ Cardinality(InFlight) < concurrent /\ AtGate # {}) =>
        /\ semaphore >= 1
        /\ \A i \in AtGate : ENABLED Acquire(i)

C25_Witness ==
    /\ concurrent = 2
    /\ requests = 3
    /\ \E i \in DOMAIN pc : pc[i] = "request"
    /\ \E i \in DOMAIN pc : pc[i] = "done"
    /\ AtGate # {}
    /\ semaphore = 1

(* C26: when exactly one request got a response, _calculate_stats does not *)
(* raise, stdev is 0 and avg, min, max, median, p95 and p99 all equal that *)
(* response time.                                                          *)
C26_SingleResponse ==
    (Returned /\ Len(response_times) = 1) =>
        /\ result.stdev_response_time = Zero
        /\ result.avg_response_time = Num(response_times[1])
        /\ result.min_response_time = Num(response_times[1])
        /\ result.max_response_time = Num(response_times[1])
        /\ result.median_response_time = Num(response_times[1])
        /\ result.p95_response_time = Num(response_times[1])
        /\ result.p99_response_time = Num(response_times[1])

C26_Witness ==
    /\ Returned
    /\ requests = 3
    /\ response_times = <<200>>
    /\ Len(errors) = 2
    /\ result.successful = 1
    /\ result.avg_response_time = <<200, 1>>

(* C28: under every interleaving the values passed to the callback are     *)
(* 1, 2, ... in this order, each once, up to requests when the run         *)
(* returns; the callback is never invoked when requests = 0.               *)
C28_ProgressCountsUp ==
    /\ \A k \in DOMAIN progress : progress[k] = k
    /\ Len(progress) <= requests
    /\ (Returned /\ progress_callback # "none") => Len(progress) = requests
    /\ requests = 0 => progress = << >>

C28_Witness ==
    /\ Returned
    /\ requests = 3
    /\ progress = <<1, 2, 3>>
    /\ Len(errors) = 2
    /\ errors[1].id = 2
    /\ errors[2].id = 0

(* C30: with concurrent = 0 and requests >= 1 the semaphore admits no      *)
(* unit: no request is sent, nothing is recorded, the callback is never    *)
(* invoked and run() never returns: every unit stays at the semaphore.     *)
C30_ZeroConcurrencyAdmitsNobody ==
    (concurrent = 0 /\ requests >= 1) =>
        /\ InFlight = {}
        /\ Left = {}
        /\ \A i \in DOMAIN issued : issued[i] = 0
        /\ Recorded = 0
        /\ completed = 0
        /\ progress = << >>
        /\ run_pc \in {"start", "gather"}
        /\ result = Null
        /\ run_pc = "gather" => Cardinality(AtGate) = requests

C30_Witness ==
    /\ concurrent = 0
    /\ requests = 3
    /\ progress_callback = "ok"
    /\ run_pc = "gather"
    /\ Cardinality(AtGate) = 3

(* ------------------------- the run with a clock ------------------------ *)
(* The same run with time.perf_counter() modelled: the clock advances      *)
(* while the event loop waits, and every elapsed time and the duration are *)
(* differences of its readings.                                            *)

MaxTimedRequests == 2
MaxClock == 3
TimedConcurrent == {1, 2}

TimedInit ==
    /\ Init
    /\ requests <= MaxTimedRequests
    /\ concurrent \in TimedConcurrent
    /\ progress_callback = "none"

(* time passes *)
Tick ==
    /\ now < MaxClock
    /\ now' = now + 1
    /\ UNCHANGED <<cli, test_start, start_time, admitted, requests,
                   concurrent, progress_callback, run_pc, semaphore, tasks,
                   pc, exc, issued, response_times, status_codes, errors,
                   completed, progress, result>>

(* make_request(i), lines 64-78, with elapsed read from the clock *)
TimedRespond(i) ==
    /\ i \in DOMAIN pc
    /\ pc[i] = "request"
    /\ response_times' =
            RecordElapsed(response_times, ElapsedMs(now, start_time[i]))
    /\ \E code \in StatusCodes : status_codes' = Tally(status_codes, code)
    /\ pc' = [pc EXCEPT ![i] = "exit"]
    /\ UNCHANGED <<cli, now, test_start, start_time, admitted,
                   requests, concurrent, progress_callback, run_pc, semaphore,
                   tasks, exc, issued, errors, completed, progress, result>>

(* run(), lines 99-111, with test_duration read from the clock *)
TimedReturn ==
    /\ run_pc = "gather"
    /\ GatherDone(pc)
    /\ result' = _calculate_stats(response_times, status_codes, errors,
                                  requests, Num(now - test_start))
    /\ run_pc' = "returned"
    /\ UNCHANGED <<cli, now, test_start, start_time, admitted,
                   requests, concurrent, progress_callback, semaphore, tasks,
                   pc, exc, issued, response_times, status_codes, errors,
                   completed, progress>>

TimedNext ==
    \/ RunStart
    \/ \E i \in Units : Acquire(i)
    \/ \E i \in Units : TimedRespond(i)
    \/ \E i \in Units : Fail(i)
    \/ \E i \in Units : Finish(i, FALSE)
    \/ TimedReturn
    \/ Tick

TimedSpec == TimedInit /\ [][TimedNext]_vars

(* C27: start_time is read in the step in which the semaphore admits the   *)
(* unit, and the elapsed time is computed when the response arrives, while *)
(* the unit still holds its permit: the recorded latency is the time since *)
(* admission and never includes the wait for the semaphore.                *)
C27_LatencyStep ==
    \A i \in DOMAIN pc :
        /\ (pc[i] = "gate" /\ pc'[i] = "request") =>
                /\ semaphore' = semaphore - 1
                /\ start_time'[i] = now
        /\ (pc[i] = "request" /\ pc'[i] = "exit"
                /\ Len(response_times') = Len(response_times) + 1) =>
                /\ response_times'[Len(response_times')] = (now - admitted[i]) * 1000
                /\ semaphore' = semaphore
                /\ i \in InFlight'

C27_LatencyExcludesGateWait ==
    /\ [][C27_LatencyStep]_vars
    /\ [](\A i \in InFlight :
            start_time[i] = admitted[i] /\ test_start <= admitted[i])

C27_Witness ==
    /\ concurrent = 1
    /\ requests = 2
    /\ test_start = 0
    /\ now = 3
    /\ \E i \in DOMAIN pc : pc[i] = "done" /\ admitted[i] = 2
    /\ response_times = <<2000, 1000>>

(* C29: total, successful, failed, success_rate, the status-code tallies   *)
(* and the latency statistics depend only on how many requests had which   *)
(* outcome, not on the order of completion: they are what the response     *)
(* times in ascending order give, and tallying two codes in either order   *)
(* gives the same dict; only the order and selection of errors varies.     *)
C29_OrderIndependent ==
    /\ \A c1, c2 \in StatusCodes :
            Tally(Tally(status_codes, c1), c2) = Tally(Tally(status_codes, c2), c1)
    /\ Returned =>
        LET canonical == LatencyStats(Sorted(response_times))
        IN /\ result.total_requests = requests
           /\ result.successful = Len(response_times)
           /\ result.failed = Len(errors)
           /\ result.success_rate =
                (IF requests = 0 THEN Zero
                 ELSE Rat(100 * Len(response_times), requests))
           /\ result.status_codes = status_codes
           /\ \A field \in DOMAIN canonical : result[field] = canonical[field]
           /\ {result.errors[k] : k \in DOMAIN result.errors}
                    \subseteq {errors[k] : k \in DOMAIN errors}

C29_Witness ==
    /\ Returned
    /\ response_times = <<1000, 100, 200>>
    /\ Len(errors) = 2
    /\ errors[1].id > errors[2].id
    /\ result.median_response_time = <<200, 1>>
    /\ result.failed = 2

====
